---- MODULE Spec2Model ----
(***************************************************************************)
(* Model of the DNS policy service: the rule store (internal/storage) and  *)
(* the webhook handler POST /v1/webhook/dns-policy (internal/routes).      *)
(*                                                                         *)
(* Strings that the code inspects character by character (zone patterns,   *)
(* e-mails, filters, the Authorization header, the API key) are sequences  *)
(* of one-character strings.  Strings that are only copied or compared     *)
(* (zone SOA, description, messages) are plain strings.                    *)
(***************************************************************************)
EXTENDS Integers, Sequences, FiniteSets, TLC

VARIABLES
    store,      \* the policy_rules table: [id -> PolicyRule]
    seq,        \* the table's auto-increment counter (largest id ever inserted)
    apiKey,     \* app.Config.DnsPolicyConfig.WebhookApiKey
    out         \* the call being answered: what it was given and what it returns

vars == <<store, seq, apiKey, out>>

----------------------------------------------------------------------------
(* Bounds *)

MaxId == 2          \* ids are drawn from 0..MaxId; auto-increment stops at MaxId
MaxTime == 2        \* time.Now() is drawn from 1..MaxTime; 0 is the zero time

----------------------------------------------------------------------------
(* Characters and strings *)

UpperCase == <<"A","B","C","D","E","F","G","H","I","J","K","L","M",
               "N","O","P","Q","R","S","T","U","V","W","X","Y","Z">>
LowerCase == <<"a","b","c","d","e","f","g","h","i","j","k","l","m",
               "n","o","p","q","r","s","t","u","v","w","x","y","z">>
Digits == {"0","1","2","3","4","5","6","7","8","9"}

Range(f) == {f[i] : i \in DOMAIN f}

HasPrefix(s, prefix) ==
    /\ Len(s) >= Len(prefix)
    /\ SubSeq(s, 1, Len(prefix)) = prefix

\* strings.CutPrefix: (s without the prefix, true) or (s, false)
CutPrefix(s, prefix) ==
    IF HasPrefix(s, prefix)
    THEN [after |-> SubSeq(s, Len(prefix) + 1, Len(s)), found |-> TRUE]
    ELSE [after |-> s, found |-> FALSE]

\* A bug variant of ReplaceAll: strings.Replace(s, old, new, 1)
RECURSIVE ReplaceFirst(_, _, _)
ReplaceFirst(s, old, new) ==
    IF Len(s) < Len(old) THEN s
    ELSE IF HasPrefix(s, old)
         THEN new \o SubSeq(s, Len(old) + 1, Len(s))
         ELSE <<Head(s)>> \o ReplaceFirst(Tail(s), old, new)

\* strings.ReplaceAll for a non-empty old: non-overlapping, left to right
RECURSIVE ReplaceAll(_, _, _)
ReplaceAll(s, old, new) ==
    IF Len(s) < Len(old) THEN s
    ELSE IF HasPrefix(s, old)
         THEN new \o ReplaceAll(SubSeq(s, Len(old) + 1, Len(s)), old, new)
         ELSE <<Head(s)>> \o ReplaceAll(Tail(s), old, new)

\* strings.ToLower on one character
ToLowerChar(c) ==
    IF \E i \in DOMAIN UpperCase : UpperCase[i] = c
    THEN LowerCase[CHOOSE i \in DOMAIN UpperCase : UpperCase[i] = c]
    ELSE c

LabelChars == Range(LowerCase) \cup Digits \cup {"-"}

MaxLabelLen == 63

\* helper.DnsMakeCompliant: lower-case, every character outside [a-z0-9-]
\* becomes "-", at most MaxLabelLen characters are kept
DnsMakeCompliant(email) ==
    LET mapped == [i \in DOMAIN email |->
                      LET c == ToLowerChar(email[i])
                      IN  IF c \in LabelChars THEN c ELSE "-"]
    IN  IF Len(mapped) > MaxLabelLen THEN SubSeq(mapped, 1, MaxLabelLen) ELSE mapped

\* The matcher's glob: "*" matches any run of characters, every other
\* character matches itself, the whole e-mail must match the whole filter
RECURSIVE GlobMatch(_, _)
GlobMatch(pattern, str) ==
    IF pattern = <<>> THEN str = <<>>
    ELSE IF Head(pattern) = "*"
         THEN \/ GlobMatch(Tail(pattern), str)
              \/ (str # <<>> /\ GlobMatch(pattern, Tail(str)))
         ELSE /\ str # <<>>
              /\ Head(str) = Head(pattern)
              /\ GlobMatch(Tail(pattern), Tail(str))

----------------------------------------------------------------------------
(* Inputs *)

PatUser == <<"%", "u", ".", "u", "%", "u">>      \* "%u.u%u"
PatShared == <<"z", ".", "u">>                   \* "z.u", no placeholder
FilterDomain == <<"*", "@", "d">>                \* "*@d"
EmailUser == <<"A", "@", "d">>                   \* "A@d"
EmailAdmin == <<"r", "@", "e">>                  \* "r@e"

Emails == {EmailUser, EmailAdmin}

\* DNS_POLICY_SUPERADMIN_EMAILS
SuperAdminEmails == {EmailAdmin}

\* DNS_POLICY_WEBHOOK_API_KEY: unset (the empty default) or set
ApiKeys == {<<>>, <<"k">>}

Ids == 0..MaxId
Times == 1..MaxTime

\* The field values callers pass to PolicyCreate and PolicyUpdate (the ID is
\* chosen separately); CreatedAt 0 is the zero time
RuleInputs ==
    { [ZonePattern |-> PatUser, ZoneSoa |-> "soa.d", TargetUserFilter |-> FilterDomain,
       Description |-> "", CreatedAt |-> 0],
      [ZonePattern |-> PatShared, ZoneSoa |-> "", TargetUserFilter |-> <<>>,
       Description |-> "shared", CreatedAt |-> 1],
      [ZonePattern |-> PatShared, ZoneSoa |-> "soa.e", TargetUserFilter |-> FilterDomain,
       Description |-> "", CreatedAt |-> 0] }

WithId(in, id) ==
    [ID |-> id, ZonePattern |-> in.ZonePattern, ZoneSoa |-> in.ZoneSoa,
     TargetUserFilter |-> in.TargetUserFilter, Description |-> in.Description,
     CreatedAt |-> in.CreatedAt]

NoRule ==
    [ID |-> -1, ZonePattern |-> <<>>, ZoneSoa |-> "", TargetUserFilter |-> <<>>,
     Description |-> "", CreatedAt |-> 0]

----------------------------------------------------------------------------
(* Errors: wrap is the fmt.Errorf prefix ("" when the error is returned as   *)
(* is), cause the underlying error ("" for nil)                             *)

Err(wrap, cause) == [wrap |-> wrap, cause |-> cause]
ErrNil == Err("", "")
ErrRecordNotFound == Err("", "record not found")            \* gorm.ErrRecordNotFound
DbUnavailable == "database unavailable"
DbConstraint == "constraint failed"
DbMissingWhere == "WHERE conditions required"               \* gorm.ErrMissingWhereClause

----------------------------------------------------------------------------
(* The table and the statements gorm runs on it.  Each statement returns    *)
(* [error, rows, table, seq, rule]: result.Error, result.RowsAffected, the  *)
(* table and its counter after the statement, and the struct gorm filled.   *)

Max(a, b) == IF a > b THEN a ELSE b

\* A bug variant: the column carries no unique index
PatternTakenNoIndex(table, pattern, exceptId) == FALSE

\* uniqueIndex on zone_pattern: no other row may hold the pattern
PatternTaken(table, pattern, exceptId) ==
    \E i \in DOMAIN table : i # exceptId /\ table[i].ZonePattern = pattern

DbResult(error, rows, table, counter, rule) ==
    [error |-> error, rows |-> rows, table |-> table, seq |-> counter, rule |-> rule]

\* db.Create(rule): a zero ID is assigned by the table's counter, a non-zero
\* ID is inserted as given; primary key and unique index are enforced
DbCreate(table, counter, rule, dbOk) ==
    LET id == IF rule.ID = 0 THEN counter + 1 ELSE rule.ID
        row == [rule EXCEPT !.ID = id]
    IN  IF ~dbOk THEN DbResult(DbUnavailable, 0, table, counter, rule)
        ELSE IF id \in DOMAIN table \/ PatternTaken(table, rule.ZonePattern, id)
        THEN DbResult(DbConstraint, 0, table, counter, rule)
        ELSE DbResult("", 1, [i \in DOMAIN table \cup {id} |->
                                  IF i = id THEN row ELSE table[i]],
                      Max(counter, id), row)

\* db.Order("id asc").Find(&rules)
RECURSIVE SortedById(_)
SortedById(table) ==
    IF DOMAIN table = {} THEN <<>>
    ELSE LET lo == CHOOSE i \in DOMAIN table : \A j \in DOMAIN table : i <= j
         IN  <<table[lo]>> \o SortedById([j \in DOMAIN table \ {lo} |-> table[j]])

\* db.First(&rule, id)
DbFirst(table, counter, id, dbOk) ==
    IF ~dbOk THEN DbResult(DbUnavailable, 0, table, counter, NoRule)
    ELSE IF id \notin DOMAIN table
    THEN DbResult(ErrRecordNotFound.cause, 0, table, counter, NoRule)
    ELSE DbResult("", 1, table, counter, table[id])

\* db.Model(rule).Select("ZonePattern", "TargetUserFilter", "Description")
\*   .Updates(rule): the WHERE clause is the struct's primary key; with a
\* zero primary key there is none and gorm refuses the statement.  Only the
\* three selected columns are written, zero values included.
DbUpdates(table, counter, rule, dbOk) ==
    IF ~dbOk THEN DbResult(DbUnavailable, 0, table, counter, rule)
    ELSE IF rule.ID = 0 THEN DbResult(DbMissingWhere, 0, table, counter, rule)
    ELSE IF rule.ID \notin DOMAIN table THEN DbResult("", 0, table, counter, rule)
    ELSE IF PatternTaken(table, rule.ZonePattern, rule.ID)
    THEN DbResult(DbConstraint, 0, table, counter, rule)
    ELSE DbResult("", 1,
                  [table EXCEPT ![rule.ID] =
                      [@ EXCEPT !.ZonePattern = rule.ZonePattern,
                                !.TargetUserFilter = rule.TargetUserFilter,
                                !.Description = rule.Description]],
                  counter, rule)

\* db.Delete(&PolicyRule{}, id)
DbDelete(table, counter, id, dbOk) ==
    IF ~dbOk THEN DbResult(DbUnavailable, 0, table, counter, NoRule)
    ELSE IF id \notin DOMAIN table THEN DbResult("", 0, table, counter, NoRule)
    ELSE DbResult("", 1, [i \in DOMAIN table \ {id} |-> table[i]], counter, NoRule)

----------------------------------------------------------------------------
(* internal/storage: each method returns [ret, err, table, seq]              *)

StorageResult(ret, err, table, counter) ==
    [ret |-> ret, err |-> err, table |-> table, seq |-> counter]

PolicyCreate(table, counter, rule, now, dbOk) ==
    LET stamped == IF rule.CreatedAt = 0 THEN [rule EXCEPT !.CreatedAt = now] ELSE rule
        result == DbCreate(table, counter, stamped, dbOk)
    IN  IF result.error # ""
        THEN StorageResult(NoRule, Err("storage.Create", result.error), table, counter)
        ELSE StorageResult(result.rule, ErrNil, result.table, result.seq)

\* returns [rules, err]
PolicyGetAll(table, dbOk) ==
    IF ~dbOk
    THEN [rules |-> <<>>, err |-> Err("storage.GetAll", DbUnavailable)]
    ELSE [rules |-> SortedById(table), err |-> ErrNil]

PolicyGetByID(table, counter, id, dbOk) ==
    LET result == DbFirst(table, counter, id, dbOk)
    IN  IF result.error # ""
        THEN IF result.error = ErrRecordNotFound.cause
             THEN StorageResult(NoRule, ErrRecordNotFound, table, counter)
             ELSE StorageResult(NoRule, Err("storage.GetByID", result.error), table, counter)
        ELSE StorageResult(result.rule, ErrNil, table, counter)

\* The UPDATE statement is the method's only write.  The read-back runs only
\* when no row was affected and writes nothing.  On success the caller's
\* struct is returned as it was passed in: gorm does not reload it.
PolicyUpdate(table, counter, rule, dbOk) ==
    LET result == DbUpdates(table, counter, rule, dbOk)
        again == PolicyGetByID(result.table, counter, rule.ID, dbOk)
    IN  IF result.error # ""
        THEN StorageResult(NoRule, Err("storage.Update", result.error), table, counter)
        ELSE IF result.rows = 0 /\ again.err # ErrNil
        THEN IF again.err = ErrRecordNotFound
             THEN StorageResult(NoRule, ErrRecordNotFound, table, counter)
             ELSE StorageResult(NoRule, Err("storage.Update", again.err.cause), table, counter)
        ELSE StorageResult(rule, ErrNil, result.table, counter)

PolicyDelete(table, counter, id, dbOk) ==
    LET result == DbDelete(table, counter, id, dbOk)
    IN  IF result.error # ""
        THEN StorageResult(NoRule, Err("storage.Delete", result.error), table, counter)
        ELSE IF result.rows = 0
        THEN StorageResult(NoRule, ErrRecordNotFound, table, counter)
        ELSE StorageResult(NoRule, ErrNil, result.table, counter)

----------------------------------------------------------------------------
(* internal/routes: the webhook                                             *)

bearerPrefix == <<"B", "e", "a", "r", "e", "r", " ">>

\* The Authorization headers callers send; <<>> is a request without one
Headers ==
    { <<>>,
      bearerPrefix,
      bearerPrefix \o <<"k">>,
      bearerPrefix \o <<"x">>,
      <<"k">> }

\* Request bodies: malformed JSON, or a claims object with an e-mail
Bodies == {[valid |-> FALSE, Email |-> <<>>]} \cup {[valid |-> TRUE, Email |-> e] : e \in Emails}

ErrMissingBearer == "missing or invalid Authorization Bearer header"
ErrInvalidApiKey == "invalid API key provided in Authorization header"

StatusOK == 200
StatusBadRequest == 400
StatusUnauthorized == 401
StatusInternalServerError == 500

\* verifyApiKey: "" is nil
verifyApiKey(authHeader, key) ==
    LET cut == CutPrefix(authHeader, bearerPrefix)
    IN  IF ~cut.found THEN ErrMissingBearer
        ELSE IF cut.after # key THEN ErrInvalidApiKey
        ELSE ""

\* c.ShouldBindJSON(&userClaimsReq): "" is nil
ShouldBindJSON(body) ==
    IF body.valid
    THEN [err |-> "", claims |-> [Email |-> body.Email]]
    ELSE [err |-> "invalid JSON", claims |-> [Email |-> <<>>]]

\* listUserRules: the rules of the store, in the store's order, that the
\* caller may use: all of them for a super admin, else those whose filter
\* matches the e-mail.  reads counts the store reads made.
listUserRules(table, claims, isSuperAdmin, dbOk) ==
    LET all == PolicyGetAll(table, dbOk)
    IN  IF all.err # ErrNil
        THEN [rules |-> <<>>, err |-> all.err, reads |-> 1]
        ELSE [rules |-> SelectSeq(all.rules,
                                  LAMBDA r : isSuperAdmin
                                             \/ GlobMatch(r.TargetUserFilter, claims.Email)),
              err |-> ErrNil, reads |-> 1]

\* JSON bodies: an object {"error": msg}, an array of zones, or null
JsonError(msg) == [kind |-> "object", error |-> msg, items |-> <<>>]
JsonSlice(slice) ==
    IF slice.isNil
    THEN [kind |-> "null", error |-> "", items |-> <<>>]
    ELSE [kind |-> "array", error |-> "", items |-> slice.items]

\* A bug variant: var zones []ZoneResponse
NilSlice == [isNil |-> TRUE, items |-> <<>>]

\* make([]ZoneResponse, 0)
MakeSlice == [isNil |-> FALSE, items |-> <<>>]

AppendZone(slice, item) == [isNil |-> FALSE, items |-> slice.items \o <<item>>]

\* A bug variant of the loop: the last rule is skipped
RECURSIVE RenderAllButLast(_, _, _)
RenderAllButLast(zones, rules, userDnsLabel) ==
    IF Len(rules) <= 1 THEN zones
    ELSE RenderAllButLast(
             AppendZone(zones, [Zone |-> ReplaceAll(Head(rules).ZonePattern, <<"%", "u">>,
                                                userDnsLabel),
                            ZoneSOA |-> Head(rules).ZoneSoa]),
             Tail(rules), userDnsLabel)

\* for _, rule := range rules { zones = append(zones, ZoneResponse{...}) }
RECURSIVE RenderZones(_, _, _)
RenderZones(zones, rules, userDnsLabel) ==
    IF rules = <<>> THEN zones
    ELSE RenderZones(
             AppendZone(zones, [Zone |-> ReplaceAll(Head(rules).ZonePattern, <<"%", "u">>,
                                                userDnsLabel),
                            ZoneSOA |-> Head(rules).ZoneSoa]),
             Tail(rules), userDnsLabel)

LogEntry(level, msg, detail) == [level |-> level, msg |-> msg, detail |-> detail]

WebhookResult(status, json, log, reads, claims, matched) ==
    [status |-> status, json |-> json, log |-> log, reads |-> reads,
     claims |-> claims, matched |-> matched]

NoClaims == [Email |-> <<>>]

\* A bug variant of the handler's guard: the key check does not stop it
IgnoreAuthError(authErr) == FALSE

\* if err != nil { ... AbortWithStatusJSON(401) ; return }
AuthFailed(authErr) == authErr # ""

\* A bug variant: a store failure is answered like an empty rule list
IgnoreStoreError(err) == FALSE

\* if err != nil { c.JSON(500, ...); return }
StoreFailed(err) == err # ErrNil

\* webhookFunc's handler
webhookFunc(table, key, authHeader, body, dbOk) ==
    LET log0 == <<LogEntry("debug", "Received webhook DNS policy request", "")>>
        authErr == verifyApiKey(authHeader, key)
        bound == ShouldBindJSON(body)
        listed == listUserRules(table, bound.claims, FALSE, dbOk)
        userDnsLabel == DnsMakeCompliant(bound.claims.Email)
        zones == RenderZones(MakeSlice, listed.rules, userDnsLabel)
    IN  IF AuthFailed(authErr)
        THEN WebhookResult(StatusUnauthorized, JsonError(authErr),
                           log0 \o <<LogEntry("warn", "Webhook API key verification failed",
                                              authErr)>>,
                           0, NoClaims, <<>>)
        ELSE IF bound.err # ""
        THEN WebhookResult(StatusBadRequest, JsonError("invalid request body"),
                           log0 \o <<LogEntry("warn", "Failed to bind JSON body", bound.err)>>,
                           0, NoClaims, <<>>)
        ELSE IF StoreFailed(listed.err)
        THEN WebhookResult(StatusInternalServerError, JsonError("Failed to retrieve rules"),
                           log0 \o <<LogEntry("debug", "Received user claims", "")>>,
                           listed.reads, bound.claims, <<>>)
        ELSE WebhookResult(StatusOK, JsonSlice(zones),
                           log0 \o <<LogEntry("debug", "Received user claims", "")>>,
                           listed.reads, bound.claims, listed.rules)

----------------------------------------------------------------------------
(* The state machine                                                        *)

\* NewStorage on an empty database; the configuration is read once
Init ==
    /\ store = <<>>
    /\ seq = 0
    /\ apiKey \in ApiKeys
    /\ out = [op |-> "none"]

\* Calls are taken one at a time: each is made and answered in one step (its
\* statement on the table is atomic), and Return hands the answer to the
\* caller before the next call is taken.
Idle == [op |-> "none"]

StorageCall(op, arg, dbOk, r) ==
    /\ out = Idle
    /\ store' = r.table
    /\ seq' = r.seq
    /\ out' = [op |-> op, arg |-> arg, dbOk |-> dbOk, ret |-> r.ret, err |-> r.err]
    /\ UNCHANGED apiKey

DoPolicyCreate ==
    \E in \in RuleInputs, id \in Ids, now \in Times, dbOk \in BOOLEAN :
        /\ id = 0 => seq < MaxId
        /\ StorageCall("PolicyCreate", WithId(in, id), dbOk,
                       PolicyCreate(store, seq, WithId(in, id), now, dbOk))

DoPolicyGetByID ==
    \E id \in Ids, dbOk \in BOOLEAN :
        StorageCall("PolicyGetByID", WithId(NoRule, id), dbOk,
                    PolicyGetByID(store, seq, id, dbOk))

DoPolicyUpdate ==
    \E in \in RuleInputs, id \in Ids, dbOk \in BOOLEAN :
        StorageCall("PolicyUpdate", WithId(in, id), dbOk,
                    PolicyUpdate(store, seq, WithId(in, id), dbOk))

DoPolicyDelete ==
    \E id \in Ids, dbOk \in BOOLEAN :
        StorageCall("PolicyDelete", WithId(NoRule, id), dbOk,
                    PolicyDelete(store, seq, id, dbOk))

\* One request to POST /v1/webhook/dns-policy.  The handler touches the
\* store in a single read statement, so it is atomic with respect to the
\* storage calls of other requests.
DoWebhook ==
    \E authHeader \in Headers, body \in Bodies, dbOk \in BOOLEAN :
        LET r == webhookFunc(store, apiKey, authHeader, body, dbOk)
        IN  /\ out = Idle
            /\ out' = [op |-> "webhook", header |-> authHeader, body |-> body,
                       dbOk |-> dbOk, status |-> r.status, json |-> r.json,
                       log |-> r.log, reads |-> r.reads, claims |-> r.claims,
                       matched |-> r.matched]
            /\ UNCHANGED <<store, seq, apiKey>>

Return ==
    /\ out # Idle
    /\ out' = Idle
    /\ UNCHANGED <<store, seq, apiKey>>

Next ==
    \/ DoPolicyCreate
    \/ DoPolicyGetByID
    \/ DoPolicyUpdate
    \/ DoPolicyDelete
    \/ DoWebhook
    \/ Return

Spec == Init /\ [][Next]_vars

----------------------------------------------------------------------------
(* Properties                                                               *)

IsWebhook == out.op = "webhook"

\* The credential the endpoint asks for: "Bearer " followed by the secret
CredentialOk(authHeader, key) == authHeader = bearerPrefix \o key

\* The zone entries a response carries (none unless the body is an array)
Zones == out.json.items

\* C1: a webhook request whose credential is missing or wrong ends in 401,
\* one with the right credential and a malformed body ends in 400, and in
\* both cases the store was not read and nothing was resolved; the store is
\* read only in requests that passed both checks.
C1_StoreReadOnlyAfterChecks ==
    IsWebhook =>
        /\ ~CredentialOk(out.header, apiKey) =>
              /\ out.status = StatusUnauthorized
              /\ out.reads = 0 /\ out.matched = <<>> /\ out.json.kind = "object"
        /\ (CredentialOk(out.header, apiKey) /\ ~out.body.valid) =>
              /\ out.status = StatusBadRequest
              /\ out.reads = 0 /\ out.matched = <<>> /\ out.json.kind = "object"
        /\ out.reads > 0 => (CredentialOk(out.header, apiKey) /\ out.body.valid)

C1_Witness ==
    /\ IsWebhook
    /\ out.header = bearerPrefix \o <<"x">>
    /\ apiKey = <<"k">>
    /\ out.body.valid
    /\ store # <<>>
    /\ out.status = StatusUnauthorized
    /\ out.reads = 0

\* C2: every rejected webhook request gets the same response: whatever other
\* Authorization header a rejected request carries, its status and body are
\* those of the rejection just answered.
C2_RejectionsIndistinguishable ==
    (IsWebhook /\ out.status = StatusUnauthorized) =>
        \A other \in Headers :
            LET r == webhookFunc(store, apiKey, other, out.body, out.dbOk)
            IN  r.status = StatusUnauthorized =>
                    (r.status = out.status /\ r.json = out.json)

\* C3: when the store read fails in an authenticated request with a
\* well-formed body, the response is a 500 error object that carries no zone
\* list, neither a partial nor an empty one.
C3_StoreFailureIs500 ==
    (IsWebhook /\ CredentialOk(out.header, apiKey) /\ out.body.valid /\ ~out.dbOk) =>
        /\ out.status = StatusInternalServerError
        /\ out.json.kind = "object"
        /\ out.json.error # ""
        /\ Zones = <<>>

C3_Witness ==
    /\ IsWebhook
    /\ out.status = StatusInternalServerError
    /\ ~out.dbOk
    /\ \E i \in DOMAIN store : GlobMatch(store[i].TargetUserFilter, out.claims.Email)

\* C4: a webhook resolution for a super-admin e-mail returns a zone for every
\* stored rule, whatever the rules' filters.
C4_SuperAdminSeesAllRules ==
    (IsWebhook /\ out.status = StatusOK /\ out.claims.Email \in SuperAdminEmails) =>
        /\ Len(Zones) = Cardinality(DOMAIN store)
        /\ \A i \in DOMAIN store : \E k \in DOMAIN out.matched : out.matched[k] = store[i]

\* The places of the two-character token %u in a pattern
Placeholders(pattern) ==
    {i \in 1..(Len(pattern) - 1) : pattern[i] = "%" /\ pattern[i + 1] = "u"}

\* zone is pattern with the token at every place of Placeholders(pattern)
\* replaced by label and every other character kept: position by position
IsExpansion(zone, pattern, label) ==
    LET places == Placeholders(pattern)
        shift(i) == Cardinality({j \in places : j < i}) * (Len(label) - 2)
    IN  /\ Len(zone) = Len(pattern) + Cardinality(places) * (Len(label) - 2)
        /\ \A i \in places :
               SubSeq(zone, i + shift(i), i + shift(i) + Len(label) - 1) = label
        /\ \A i \in DOMAIN pattern :
               (i \notin places /\ (i - 1) \notin places) => zone[i + shift(i)] = pattern[i]

\* C5: in a 200 response every matched rule has its zone entry, whose zone is
\* the rule's pattern with each %u of the pattern replaced by the DNS label
\* of the e-mail and nothing else changed (the pattern itself when it holds
\* no %u), and whose zone_soa is the rule's zoneSoa.
C5_ZoneIsPatternExpanded ==
    (IsWebhook /\ out.status = StatusOK) =>
        \A k \in DOMAIN out.matched :
            /\ k \in DOMAIN Zones
            /\ IsExpansion(Zones[k].Zone, out.matched[k].ZonePattern,
                           DnsMakeCompliant(out.claims.Email))
            /\ Placeholders(out.matched[k].ZonePattern) = {} =>
                   Zones[k].Zone = out.matched[k].ZonePattern
            /\ Zones[k].ZoneSOA = out.matched[k].ZoneSoa

C5_Witness ==
    /\ IsWebhook
    /\ out.status = StatusOK
    /\ out.claims.Email = EmailUser
    /\ \E k \in DOMAIN out.matched :
           /\ out.matched[k].ZonePattern = PatUser
           /\ Zones[k].Zone = <<"a", "-", "d", ".", "u", "a", "-", "d">>
    /\ \E k \in DOMAIN out.matched :
           /\ out.matched[k].ZonePattern = PatShared
           /\ Zones[k].Zone = PatShared

\* The stored rules whose filter matches an e-mail
MatchingIds(email) ==
    {i \in DOMAIN store : GlobMatch(store[i].TargetUserFilter, email)}

\* C6: an authenticated, well-formed request whose store read succeeds gets
\* 200 and a JSON array (never null) with exactly one entry per matched rule,
\* in the order of the matched rules, which is ascending id; with no match
\* the array is empty.
C6_OneZonePerMatchedRuleInOrder ==
    (IsWebhook /\ CredentialOk(out.header, apiKey) /\ out.body.valid /\ out.dbOk) =>
        /\ out.status = StatusOK
        /\ out.json.kind = "array"
        /\ Len(Zones) = Cardinality(MatchingIds(out.claims.Email))
        /\ Len(Zones) = Len(out.matched)
        /\ \A k \in DOMAIN out.matched :
               /\ out.matched[k].ID \in MatchingIds(out.claims.Email)
               /\ out.matched[k] = store[out.matched[k].ID]
               /\ Zones[k].ZoneSOA = out.matched[k].ZoneSoa
               /\ Zones[k].Zone = ReplaceAll(out.matched[k].ZonePattern, <<"%", "u">>,
                                             DnsMakeCompliant(out.claims.Email))
        /\ \A k, l \in DOMAIN out.matched : k < l => out.matched[k].ID < out.matched[l].ID

C6_Witness ==
    /\ IsWebhook
    /\ out.status = StatusOK
    /\ Len(Zones) = 2
    /\ Zones[1].ZoneSOA # Zones[2].ZoneSOA
    /\ Cardinality(MatchingIds(out.claims.Email)) = 2

\* C7, the state part: no two stored rules share a zonePattern, and so no
\* PolicyGetAll snapshot holds the same pattern twice.
UniquePatterns ==
    /\ \A i, j \in DOMAIN store : i # j => store[i].ZonePattern # store[j].ZonePattern
    /\ LET snapshot == PolicyGetAll(store, TRUE).rules
       IN  \A k, l \in DOMAIN snapshot :
               k # l => snapshot[k].ZonePattern # snapshot[l].ZonePattern

\* C7, the step part: a create or update whose pattern another stored rule
\* already has returns an error and leaves the store as it was.
DuplicateRejected ==
    (/\ out'.op \in {"PolicyCreate", "PolicyUpdate"}
     /\ \E i \in DOMAIN store :
            i # out'.arg.ID /\ store[i].ZonePattern = out'.arg.ZonePattern)
    => (out'.err # ErrNil /\ store' = store)

C8_FilterAndSoaNonEmpty ==
    \A i \in DOMAIN store :
        store[i].TargetUserFilter # <<>> /\ store[i].ZoneSoa # ""

\* C9: with the database up, PolicyGetByID, PolicyUpdate and PolicyDelete of
\* an id that is not stored return gorm.ErrRecordNotFound and leave the
\* store unchanged; PolicyDelete of a stored id succeeds and removes exactly
\* that rule (so the id is not stored afterwards).
C9_NotFoundStep ==
    /\ (/\ out'.op \in {"PolicyGetByID", "PolicyUpdate", "PolicyDelete"}
        /\ out'.dbOk
        /\ out'.arg.ID \notin DOMAIN store)
       => (out'.err = ErrRecordNotFound /\ store' = store)
    /\ (/\ out'.op = "PolicyDelete"
        /\ out'.dbOk
        /\ out'.arg.ID \in DOMAIN store)
       => /\ out'.err = ErrNil
          /\ DOMAIN store' = DOMAIN store \ {out'.arg.ID}
          /\ \A i \in DOMAIN store' : store'[i] = store[i]

C9_NotFoundForAbsentId == [][C9_NotFoundStep]_vars

\* C10, the returned object: the rule a successful PolicyUpdate returns is
\* the rule PolicyGetByID returns for that id right afterwards.
C10_ReturnedRuleIsStoredRule ==
    (out.op = "PolicyUpdate" /\ out.err = ErrNil) =>
        out.ret = PolicyGetByID(store, seq, out.arg.ID, TRUE).ret

\* C10, the store: a successful PolicyUpdate changes only zonePattern,
\* targetUserFilter and description of the rule with that id.
C10_UpdateStep ==
    (out'.op = "PolicyUpdate" /\ out'.err = ErrNil) =>
        /\ DOMAIN store' = DOMAIN store
        /\ \A i \in DOMAIN store : i # out'.arg.ID => store'[i] = store[i]
        /\ store'[out'.arg.ID].ID = store[out'.arg.ID].ID
        /\ store'[out'.arg.ID].CreatedAt = store[out'.arg.ID].CreatedAt
        /\ store'[out'.arg.ID].ZoneSoa = store[out'.arg.ID].ZoneSoa

\* C10: both parts
C10_UpdateReturnsStoredRule == []C10_ReturnedRuleIsStoredRule /\ [][C10_UpdateStep]_vars


\* C11: whatever the configured secret, the empty default included, a webhook
\* request passes the credential check (is not answered 401) only if its
\* Authorization header is "Bearer " followed by a non-empty credential
\* equal to the secret; every other header is answered 401.
C11_OnlyNonEmptyMatchingCredential ==
    IsWebhook =>
        LET cut == CutPrefix(out.header, bearerPrefix)
            accepted == /\ cut.found
                        /\ cut.after # <<>>
                        /\ cut.after = apiKey
        IN  /\ out.status # StatusUnauthorized => accepted
            /\ ~accepted => out.status = StatusUnauthorized

====
